---- MODULE Spec2Model ----
(***************************************************************************)
(* Agri-Crop Production Dashboard (src/agri.py).                           *)
(*                                                                         *)
(* One Streamlit session of the script: every interaction re-runs the      *)
(* script top to bottom (load_data, sidebar widgets, filter, metrics,      *)
(* charts).  The only state that outlives a run is the st.cache_data entry *)
(* of load_data and the session's widget values.                           *)
(*                                                                         *)
(* Representation.                                                         *)
(*  - A string that the code edits (a CSV header) is a sequence of         *)
(*    one-character strings; a cell value (state, crop, season) is a       *)
(*    string and is only compared.                                         *)
(*  - A table is [columns |-> sequence of names, rows |-> sequence of      *)
(*    tuples], a tuple holding one cell per column.                        *)
(*  - A Production cell is held in hundredths of a tonne (the generator    *)
(*    rounds to 2 decimals).  A sum of Production is the exact decimal     *)
(*    <<tonnes, hundredths>> (a sum over 1000 rows does not fit 32 bits in *)
(*    hundredths); avg_yield is the exact fraction [num, den].             *)
(*  - numpy's generator is a stream of raw draws fixed by its seed; the    *)
(*    seed is an input of the run.                                         *)
(*                                                                         *)
(* Libraries.  st.cache_data stores a result only when the body returns    *)
(* and shows the stored st.warning again on a hit.  What pd.read_csv meets *)
(* (no file, an unreadable or malformed file, a readable file) is an input *)
(* of each call.  Floating-point rounding of the sums and the drawing of   *)
(* the page (st.metric's formatting, plotly) are not modelled; the drawing *)
(* calls are taken not to raise.                                           *)
(***************************************************************************)
EXTENDS Integers, Sequences, FiniteSets, TLC

\* ----------------------------------------------------------------- state

VARIABLES
    cache,            \* st.cache_data's entry for load_data: <<>> or <<[value, msgs]>>
    file,             \* crop_production.csv as the last pd.read_csv met it
    body_runs,        \* how often the body of load_data has run
    runs,             \* script runs started in this session
    w_year,           \* the session's value of "Select Year": <<>> or <<year>>
    w_states,         \* the session's value of "Select State(s)": <<>> or <<set>>
    w_crops,          \* the session's value of "Select Crop(s)": <<>> or <<set>>
    pc,               \* where the running script is, or how the last run ended
    exc,              \* the exception that ended the run, "none" otherwise
    messages,         \* the st.warning messages shown in this run
    df,
    all_years,        \* sorted(df['Crop_Year'].unique())
    all_states,       \* sorted(df['State_Name'].unique())
    all_crops,        \* sorted(df['Crop'].unique())
    selected_year,
    selected_state,
    selected_crops,
    filtered_df,
    total_production,
    total_area,
    avg_yield,
    yearly_prod,
    figs              \* the data handed to the charts and the detail table

\* ---------------------------------------------------------------- bounds

\* Script runs (interaction cycles) explored in one session.
MaxRuns == 3

\* Seeds of numpy's random generator that are explored.
NumSeeds == 2

\* Data rows of a crop_production.csv that are explored (at least one).
MaxFileRows == 2

\* ------------------------------------------------- constants of the code

\* for _ in range(1000)
N_ROWS == 1000

\* np.random.randint(100, 10000): low inclusive, high exclusive
AREA_LOW == 100

AREA_HIGH == 10000

\* years = list(range(2015, 2024)): 2015 .. 2023
YEAR_FIRST == 2015

YEAR_STOP == 2024

\* np.random.uniform(0.8, 1.2), in hundredths
MULT_LOW == 80

MULT_HIGH == 120

\* all_states[:2] and all_crops[:3]
DEFAULT_STATES == 2

DEFAULT_CROPS == 3

states == <<"Karnataka", "Maharashtra", "Punjab", "Uttar Pradesh", "Tamil Nadu", "Bihar">>

crops == <<"Rice", "Maize", "Wheat", "Sugarcane", "Cotton", "Groundnut">>

seasons == <<"Kharif", "Rabi", "Whole Year">>

years == [i \in 1..(YEAR_STOP - YEAR_FIRST) |-> YEAR_FIRST + i - 1]

\* yield_factor, in tenths: 3, 3.5, 4, 60, 0.5, 1.5
yield_factor == [c \in {"Rice", "Wheat", "Maize", "Sugarcane", "Cotton", "Groundnut"} |->
    CASE c = "Rice" -> 30
      [] c = "Wheat" -> 35
      [] c = "Maize" -> 40
      [] c = "Sugarcane" -> 600
      [] c = "Cotton" -> 5
      [] c = "Groundnut" -> 15]

\* The column names the script addresses.
State_Name == <<"S","t","a","t","e","_","N","a","m","e">>

Crop_Year == <<"C","r","o","p","_","Y","e","a","r">>

Season == <<"S","e","a","s","o","n">>

Crop == <<"C","r","o","p">>

Area == <<"A","r","e","a">>

Production == <<"P","r","o","d","u","c","t","i","o","n">>

SynthColumns == <<State_Name, Crop_Year, Season, Crop, Area, Production>>

\* ------------------------------------------------------------- sequences

Range(s) == {s[i] : i \in 1..Len(s)}

\* Python's str order on the cell values the model uses: the names in
\* lexicographic order.
StrOrder == <<"Bihar", "Cotton", "Groundnut", "Karnataka", "Maharashtra", "Maize",
              "Punjab", "Rice", "Sugarcane", "Tamil Nadu", "Uttar Pradesh", "Wheat">>

Rank(name) == CHOOSE i \in 1..Len(StrOrder) : StrOrder[i] = name

\* sorted(...) of a set of integers.
RECURSIVE SortedInts(_)
SortedInts(S) ==
    IF S = {} THEN <<>>
    ELSE LET m == CHOOSE x \in S : \A y \in S : x <= y
         IN <<m>> \o SortedInts(S \ {m})

\* sorted(...) of a set of names.
RECURSIVE SortedNames(_)
SortedNames(S) ==
    IF S = {} THEN <<>>
    ELSE LET m == CHOOSE x \in S : \A y \in S : Rank(x) <= Rank(y)
         IN <<m>> \o SortedNames(S \ {m})

\* s[:n]
Prefix(s, n) == SubSeq(s, 1, IF n < Len(s) THEN n ELSE Len(s))

\* ------------------------------------------------- the synthetic generator

\* The k-th raw draw of row i under a seed (row i makes 6 draws, in the
\* order state, crop, year, season, area, multiplier).
Raw(seed, i, k) ==
    LET x == ((seed * 7919) + (6 * (i - 1)) + k) % 65521
    IN ((((x * x) % 65521) * 7919) + (x * 4801) + 11) % 65521

\* np.random.choice(list)
Choice(list, raw) == list[1 + (raw % Len(list))]

\* Mutant of RandInt: the low end is dropped.
RandIntNoLow(low, high, raw) == raw % high

\* np.random.randint(low, high): an integer in [low, high)
RandInt(low, high, raw) == low + (raw % (high - low))

\* np.random.uniform(low, high), low and high in hundredths: a value in
\* [low, high)
Uniform(low, high, raw) == low + (((high - low) * (raw % 1000)) \div 1000)

\* round(x, 2) of x = n / 1000 (n in thousandths), in hundredths, halves to
\* even
Round2(n) ==
    LET q == n \div 10
        r == n % 10
    IN IF r > 5 \/ (r = 5 /\ q % 2 = 1) THEN q + 1 ELSE q

\* round(area * yield_factor[crop] * multiplier, 2); the product of an
\* integer, tenths and hundredths is in thousandths
ProductionOf(area, crop, mult) == Round2(area * yield_factor[crop] * mult)

\* One pass of the loop body: data.append([state, year, season, crop, area, ...])
SynthRow(seed, i) ==
    LET state == Choice(states, Raw(seed, i, 1))
        crop == Choice(crops, Raw(seed, i, 2))
        year == Choice(years, Raw(seed, i, 3))
        season == Choice(seasons, Raw(seed, i, 4))
        area == RandInt(AREA_LOW, AREA_HIGH, Raw(seed, i, 5))
        mult == Uniform(MULT_LOW, MULT_HIGH, Raw(seed, i, 6))
    IN <<state, year, season, crop, area, ProductionOf(area, crop, mult)>>

\* Mutant of SynthRowCount: the loop is one pass short.
SynthRowCountShort == N_ROWS - 1

SynthRowCount == N_ROWS

SynthTable(seed) ==
    [columns |-> SynthColumns, rows |-> [i \in 1..SynthRowCount |-> SynthRow(seed, i)]]

\* ------------------------------------------------------ column names

Whitespace == {" ", "\t", "\n", "\r"}

\* str.lstrip()
RECURSIVE LStrip(_)
LStrip(h) == IF h # <<>> /\ Head(h) \in Whitespace THEN LStrip(Tail(h)) ELSE h

\* str.rstrip()
RECURSIVE RStrip(_)
RStrip(h) ==
    IF h # <<>> /\ h[Len(h)] \in Whitespace THEN RStrip(SubSeq(h, 1, Len(h) - 1)) ELSE h

\* Mutant of Strip: only the leading whitespace is dropped.
StripLeft(h) == LStrip(h)

\* str.strip()
Strip(h) == RStrip(LStrip(h))

\* str.replace(" ", "_")
ReplaceSpaces(h) == [i \in 1..Len(h) |-> IF h[i] = " " THEN "_" ELSE h[i]]

\* df.columns.str.strip().str.replace(" ", "_"), for one column name
Normalize(h) == ReplaceSpaces(Strip(h))

NormalizeColumns(t) ==
    [columns |-> [i \in 1..Len(t.columns) |-> Normalize(t.columns[i])], rows |-> t.rows]

\* ----------------------------------------------------------------- tables

NoTable == [columns |-> <<>>, rows |-> <<>>]

\* name in df.columns; df[name] raises KeyError otherwise
HasCol(t, name) == \E i \in 1..Len(t.columns) : t.columns[i] = name

ColIndex(t, name) == CHOOSE i \in 1..Len(t.columns) : t.columns[i] = name

\* df[name].unique(), as a set
Unique(t, name) == LET c == ColIndex(t, name) IN {t.rows[i][c] : i \in 1..Len(t.rows)}

\* The decimal <<tonnes, hundredths>> plus a cell of h hundredths, h >= 0.
AddDec(d, h) ==
    LET c == d[2] + (h % 100)
    IN <<d[1] + (h \div 100) + (c \div 100), c % 100>>

RECURSIVE SumDecFrom(_, _, _, _)
SumDecFrom(rows, c, i, acc) ==
    IF i > Len(rows) THEN acc ELSE SumDecFrom(rows, c, i + 1, AddDec(acc, rows[i][c]))

\* Mutant of SumProduction: the first row is left out.
SumProductionFromSecond(rows, c) == SumDecFrom(rows, c, 2, <<0, 0>>)

\* rows[column c].sum() of a Production column
SumProduction(rows, c) == SumDecFrom(rows, c, 1, <<0, 0>>)

RECURSIVE SumIntFrom(_, _, _, _)
SumIntFrom(rows, c, i, acc) ==
    IF i > Len(rows) THEN acc ELSE SumIntFrom(rows, c, i + 1, acc + rows[i][c])

\* rows[column c].sum() of an Area column
SumArea(rows, c) == SumIntFrom(rows, c, 1, 0)

\* Mutant of RowMatches: the year is not compared.
RowMatchesAnyYear(r, iy, is, ic, year, sel_states, sel_crops) ==
    r[is] \in sel_states /\ r[ic] \in sel_crops

\* (df['Crop_Year'] == selected_year) & (df['State_Name'].isin(selected_state))
\* & (df['Crop'].isin(selected_crops)), for one row
RowMatches(r, iy, is, ic, year, sel_states, sel_crops) ==
    r[iy] = year /\ r[is] \in sel_states /\ r[ic] \in sel_crops

\* filtered_df = df[...]
FilterRows(t, year, sel_states, sel_crops) ==
    LET iy == ColIndex(t, Crop_Year)
        is == ColIndex(t, State_Name)
        ic == ColIndex(t, Crop)
    IN [columns |-> t.columns,
        rows |-> SelectSeq(t.rows, LAMBDA r : RowMatches(r, iy, is, ic, year, sel_states, sel_crops))]

\* Mutant of HistoryMatches: the year filter is applied to the trend too.
HistoryMatchesSelectedYear(r, is, ic, sel_states, sel_crops) ==
    /\ r[ColIndex(df, Crop_Year)] = selected_year
    /\ r[is] \in sel_states
    /\ r[ic] \in sel_crops

\* (df['State_Name'].isin(selected_state)) & (df['Crop'].isin(selected_crops))
HistoryMatches(r, is, ic, sel_states, sel_crops) ==
    r[is] \in sel_states /\ r[ic] \in sel_crops

\* history_df = df[...]
HistoryRows(t, sel_states, sel_crops) ==
    LET is == ColIndex(t, State_Name)
        ic == ColIndex(t, Crop)
    IN [columns |-> t.columns,
        rows |-> SelectSeq(t.rows, LAMBDA r : HistoryMatches(r, is, ic, sel_states, sel_crops))]

RECURSIVE Flatten(_)
Flatten(ss) == IF ss = <<>> THEN <<>> ELSE Head(ss) \o Flatten(Tail(ss))

\* history_df.groupby(['Crop_Year', 'State_Name'])['Production'].sum()
\* .reset_index(): one row <<year, state, sum>> per group, sorted by key
GroupYearState(t) ==
    LET iy == ColIndex(t, Crop_Year)
        is == ColIndex(t, State_Name)
        ip == ColIndex(t, Production)
        ys == SortedInts({t.rows[i][iy] : i \in 1..Len(t.rows)})
        ForYear(y) ==
            LET rs == SelectSeq(t.rows, LAMBDA r : r[iy] = y)
                ns == SortedNames({rs[i][is] : i \in 1..Len(rs)})
            IN [j \in 1..Len(ns) |->
                   <<y, ns[j], SumProduction(SelectSeq(rs, LAMBDA r : r[is] = ns[j]), ip)>>]
    IN [columns |-> <<Crop_Year, State_Name, Production>>,
        rows |-> Flatten([k \in 1..Len(ys) |-> ForYear(ys[k])])]

\* filtered_df.groupby('Crop')['Production'].sum().reset_index()
GroupCrop(t) ==
    LET ic == ColIndex(t, Crop)
        ip == ColIndex(t, Production)
        ns == SortedNames({t.rows[i][ic] : i \in 1..Len(t.rows)})
    IN [columns |-> <<Crop, Production>>,
        rows |-> [j \in 1..Len(ns) |->
                     <<ns[j], SumProduction(SelectSeq(t.rows, LAMBDA r : r[ic] = ns[j]), ip)>>]]

\* Mutant of AvgYield: the division is made whatever the area.
AvgYieldUnguarded(production, area) == [num |-> production, den |-> area]

\* total_production / total_area if total_area > 0 else 0
AvgYield(production, area) ==
    IF area > 0 THEN [num |-> production, den |-> area] ELSE [num |-> <<0, 0>>, den |-> 1]

\* ------------------------------------------------ crop_production.csv

\* The records a file's rows are drawn from (Production in hundredths).
FileRecords ==
    { [state |-> "Karnataka", year |-> 2020, season |-> "Kharif", crop |-> "Rice",
       area |-> 100, production |-> 30000],
      [state |-> "Punjab", year |-> 2019, season |-> "Rabi", crop |-> "Wheat",
       area |-> 0, production |-> 0],
      [state |-> "Karnataka", year |-> 2019, season |-> "Kharif", crop |-> "Wheat",
       area |-> 250, production |-> 12345] }

\* The header lines a file is given: each column's header as written, and
\* the field its cells hold.
FileLayouts ==
    { \* the names the script addresses
      << <<State_Name, "state">>, <<Crop_Year, "year">>, <<Season, "season">>,
         <<Crop, "crop">>, <<Area, "area">>, <<Production, "production">> >>,
      \* padded headers with spaces inside
      << <<<<" ","S","t","a","t","e"," ","N","a","m","e">>, "state">>,
         <<<<" ","C","r","o","p"," ","Y","e","a","r"," ">>, "year">>,
         <<<<"S","e","a","s","o","n","\t">>, "season">>,
         <<<<" "," ","C","r","o","p">>, "crop">>,
         <<<<"A","r","e","a"," ">>, "area">>,
         <<<<"\t","P","r","o","d","u","c","t","i","o","n"," ">>, "production">> >>,
      \* no Season column, columns in another order
      << <<Crop, "crop">>, <<<<"C","r","o","p"," ","Y","e","a","r">>, "year">>,
         <<Production, "production">>, <<Area, "area">>, <<State_Name, "state">> >>,
      \* the year under another header
      << <<State_Name, "state">>, <<<<"Y","e","a","r">>, "year">>, <<Season, "season">>,
         <<Crop, "crop">>, <<Area, "area">>, <<Production, "production">> >>,
      \* the production under another header
      << <<State_Name, "state">>, <<Crop_Year, "year">>, <<Season, "season">>,
         <<Crop, "crop">>, <<Area, "area">>, <<<<"Y","i","e","l","d">>, "production">> >> }

\* pd.read_csv of a readable file: the headers as written, one tuple per row
ParsedFile(layout, recs) ==
    [columns |-> [c \in 1..Len(layout) |-> layout[c][1]],
     rows |-> [i \in 1..Len(recs) |-> [c \in 1..Len(layout) |-> recs[i][layout[c][2]]]]]

FileTables ==
    { ParsedFile(layout, recs) :
        layout \in FileLayouts,
        recs \in UNION {[1..n -> FileRecords] : n \in 1..MaxFileRows} }

\* What pd.read_csv("crop_production.csv") can meet.
FileStates ==
    {[status |-> st, table |-> NoTable] : st \in {"absent", "denied", "malformed"}}
    \cup {[status |-> "ok", table |-> t] : t \in FileTables}

Unread == [status |-> "unread", table |-> NoTable]

\* The exception pd.read_csv raises, "none" when it returns.
ReadError(f) ==
    CASE f.status = "absent" -> "FileNotFoundError"
      [] f.status = "denied" -> "PermissionError"
      [] f.status = "malformed" -> "ParserError"
      [] OTHER -> "none"

\* Mutant of Handled: a bare except.
HandledAny(e) == TRUE

\* except FileNotFoundError:
Handled(e) == e = "FileNotFoundError"

WARNING == "CSV file not found. Using synthetic data."

\* The body of load_data: the exception it raises ("none" when it returns),
\* the table it returns and the st.warning messages it shows.
LoadBody(f, seed) ==
    IF ReadError(f) = "none"
    THEN [exc |-> "none", value |-> NormalizeColumns(f.table), msgs |-> <<>>]
    ELSE IF Handled(ReadError(f))
    THEN [exc |-> "none", value |-> SynthTable(seed), msgs |-> <<WARNING>>]
    ELSE [exc |-> ReadError(f), value |-> NoTable, msgs |-> <<>>]

\* Mutant of IsHit: no memoization.
IsHitNever(c) == FALSE

\* @st.cache_data: a call is answered from the cache when an entry exists
\* (load_data has no parameters, so there is one key).
IsHit(c) == c # <<>>

\* --------------------------------------------------------------- widgets

\* Mutant of ReadWidget: the widget forgets the user's choice.
ReadWidgetDefault(stored, default) == default

\* What a widget returns: the session's value when it has one, else the
\* default it is given.
ReadWidget(stored, default) == IF stored = <<>> THEN default ELSE stored[1]

\* The session's value of a widget after the widget has run: a widget with
\* no value yet registers the one it returned.
Registered(stored, returned) == IF stored = <<>> THEN <<returned>> ELSE stored

\* index=len(all_years) - 1
DefaultYear(options) == options[Len(options)]

\* default=all_states[:2]
DefaultStates(options) == Range(Prefix(options, DEFAULT_STATES))

\* default=all_crops[:3]
DefaultCrops(options) == Range(Prefix(options, DEFAULT_CROPS))

NoFigs == [fig_crop |-> NoTable, fig_state |-> NoTable, fig_trend |-> NoTable,
           fig_scatter |-> NoTable, dataframe |-> NoTable]

NoYield == [num |-> <<0, 0>>, den |-> 1]

\* ---------------------------------------------------------- state tuples

session == <<w_year, w_states, w_crops>>

script == <<df, all_years, all_states, all_crops, selected_year, selected_state, selected_crops, filtered_df,
            total_production, total_area, avg_yield, yearly_prod, figs>>

vars == <<cache, file, body_runs, runs, session, pc, exc, messages, script>>

\* A run's variables before its first line.
FreshScript ==
    /\ df = NoTable
    /\ all_years = <<>>
    /\ all_states = <<>>
    /\ all_crops = <<>>
    /\ selected_year = 0
    /\ selected_state = {}
    /\ selected_crops = {}
    /\ filtered_df = NoTable
    /\ total_production = <<0, 0>>
    /\ total_area = 0
    /\ avg_yield = NoYield
    /\ yearly_prod = NoTable
    /\ figs = NoFigs

Init ==
    /\ cache = <<>>
    /\ file = Unread
    /\ body_runs = 0
    /\ runs = 0
    /\ w_year = <<>>
    /\ w_states = <<>>
    /\ w_crops = <<>>
    /\ pc = "idle"
    /\ exc = "none"
    /\ messages = <<>>
    /\ FreshScript

\* ---------------------------------------------------------- interactions

Resting == pc \in {"idle", "done", "error"}

\* Streamlit runs the script again, top to bottom, in a fresh namespace.
StartRun ==
    /\ Resting
    /\ runs < MaxRuns
    /\ runs' = runs + 1
    /\ pc' = "load"
    /\ exc' = "none"
    /\ messages' = <<>>
    /\ df' = NoTable
    /\ all_years' = <<>>
    /\ all_states' = <<>>
    /\ all_crops' = <<>>
    /\ selected_year' = 0
    /\ selected_state' = {}
    /\ selected_crops' = {}
    /\ filtered_df' = NoTable
    /\ total_production' = <<0, 0>>
    /\ total_area' = 0
    /\ avg_yield' = NoYield
    /\ yearly_prod' = NoTable
    /\ figs' = NoFigs
    /\ UNCHANGED <<cache, file, body_runs>>

\* The page is opened or refreshed.
Rerun == StartRun /\ UNCHANGED session

\* The user picks another of the years the selectbox offered.
SelectYear ==
    /\ w_year # <<>>
    /\ \E y \in Range(all_years) \ {w_year[1]} : w_year' = <<y>>
    /\ StartRun
    /\ UNCHANGED <<w_states, w_crops>>

\* The user adds or removes one state, or clears the selection.
SelectStates ==
    /\ w_states # <<>>
    /\ \/ \E s \in Range(all_states) :
            w_states' = <<IF s \in w_states[1] THEN w_states[1] \ {s} ELSE w_states[1] \cup {s}>>
       \/ w_states[1] # {} /\ w_states' = <<{}>>
    /\ StartRun
    /\ UNCHANGED <<w_year, w_crops>>

\* The user adds or removes one crop, or clears the selection.
SelectCrops ==
    /\ w_crops # <<>>
    /\ \/ \E c \in Range(all_crops) :
            w_crops' = <<IF c \in w_crops[1] THEN w_crops[1] \ {c} ELSE w_crops[1] \cup {c}>>
       \/ w_crops[1] # {} /\ w_crops' = <<{}>>
    /\ StartRun
    /\ UNCHANGED <<w_year, w_states>>

\* ------------------------------------------------------------ the script

\* df = load_data(), answered from the cache: the stored table, and the
\* stored messages shown again.
LoadHit ==
    /\ pc = "load"
    /\ IsHit(cache)
    /\ df' = cache[1].value
    /\ messages' = cache[1].msgs
    /\ pc' = "sidebar"
    /\ UNCHANGED <<cache, file, body_runs, runs, session, exc>>
    /\ UNCHANGED <<all_years, all_states, all_crops, selected_year, selected_state,
                   selected_crops, filtered_df, total_production, total_area, avg_yield,
                   yearly_prod, figs>>

\* df = load_data(), the body run: its result is stored unless it raises.
LoadMiss ==
    /\ pc = "load"
    /\ ~IsHit(cache)
    /\ body_runs' = body_runs + 1
    /\ \E f \in FileStates, seed \in 1..NumSeeds :
         LET r == LoadBody(f, seed) IN
         /\ file' = f
         /\ messages' = r.msgs
         /\ IF r.exc = "none"
            THEN /\ cache' = <<[value |-> r.value, msgs |-> r.msgs]>>
                 /\ df' = r.value
                 /\ pc' = "sidebar"
                 /\ exc' = "none"
            ELSE /\ cache' = cache
                 /\ df' = df
                 /\ pc' = "error"
                 /\ exc' = r.exc
    /\ UNCHANGED <<runs, session>>
    /\ UNCHANGED <<all_years, all_states, all_crops, selected_year, selected_state,
                   selected_crops, filtered_df, total_production, total_area, avg_yield,
                   yearly_prod, figs>>

\* Lines 56-68: the three sidebar widgets, each reading its column first.
Sidebar ==
    /\ pc = "sidebar"
    /\ IF ~HasCol(df, Crop_Year)
       THEN /\ pc' = "error" /\ exc' = "KeyError"
            /\ UNCHANGED <<session, all_years, all_states, all_crops,
                           selected_year, selected_state, selected_crops>>
       ELSE
        /\ all_years' = SortedInts(Unique(df, Crop_Year))
        /\ selected_year' = ReadWidget(w_year, DefaultYear(all_years'))
        /\ w_year' = Registered(w_year, selected_year')
        /\ IF ~HasCol(df, State_Name)
           THEN /\ pc' = "error" /\ exc' = "KeyError"
                /\ UNCHANGED <<w_states, w_crops, all_states, all_crops,
                               selected_state, selected_crops>>
           ELSE
            /\ all_states' = SortedNames(Unique(df, State_Name))
            /\ selected_state' = ReadWidget(w_states, DefaultStates(all_states'))
            /\ w_states' = Registered(w_states, selected_state')
            /\ IF ~HasCol(df, Crop)
               THEN /\ pc' = "error" /\ exc' = "KeyError"
                    /\ UNCHANGED <<w_crops, all_crops, selected_crops>>
               ELSE
                /\ all_crops' = SortedNames(Unique(df, Crop))
                /\ selected_crops' = ReadWidget(w_crops, DefaultCrops(all_crops'))
                /\ w_crops' = Registered(w_crops, selected_crops')
                /\ pc' = "filter"
                /\ exc' = "none"
    /\ UNCHANGED <<cache, file, body_runs, runs, messages>>
    /\ UNCHANGED <<df, filtered_df, total_production, total_area, avg_yield, yearly_prod, figs>>

\* Lines 69-73.
Filter ==
    /\ pc = "filter"
    /\ filtered_df' = FilterRows(df, selected_year, selected_state, selected_crops)
    /\ pc' = "metrics"
    /\ UNCHANGED <<cache, file, body_runs, runs, session, exc, messages>>
    /\ UNCHANGED <<df, all_years, all_states, all_crops, selected_year, selected_state,
                   selected_crops, total_production, total_area, avg_yield, yearly_prod, figs>>

\* Lines 76-83.
Metrics ==
    /\ pc = "metrics"
    /\ IF ~HasCol(filtered_df, Production) \/ ~HasCol(filtered_df, Area)
       THEN /\ pc' = "error" /\ exc' = "KeyError"
            /\ UNCHANGED <<total_production, total_area, avg_yield>>
       ELSE /\ total_production' = SumProduction(filtered_df.rows, ColIndex(filtered_df, Production))
            /\ total_area' = SumArea(filtered_df.rows, ColIndex(filtered_df, Area))
            /\ avg_yield' = AvgYield(total_production', total_area')
            /\ pc' = "charts"
            /\ exc' = "none"
    /\ UNCHANGED <<cache, file, body_runs, runs, session, messages>>
    /\ UNCHANGED <<df, all_years, all_states, all_crops, selected_year, selected_state,
                   selected_crops, filtered_df, yearly_prod, figs>>

\* Lines 85-146: the data each chart and the detail table are given.
Charts ==
    /\ pc = "charts"
    /\ yearly_prod' = GroupYearState(HistoryRows(df, selected_state, selected_crops))
    /\ figs' = [fig_crop |-> GroupCrop(filtered_df),
                fig_state |-> filtered_df,
                fig_trend |-> yearly_prod',
                fig_scatter |-> filtered_df,
                dataframe |-> filtered_df]
    /\ pc' = "done"
    /\ UNCHANGED <<cache, file, body_runs, runs, session, exc, messages>>
    /\ UNCHANGED <<df, all_years, all_states, all_crops, selected_year, selected_state,
                   selected_crops, filtered_df, total_production, total_area, avg_yield>>

Next ==
    \/ Rerun
    \/ SelectYear
    \/ SelectStates
    \/ SelectCrops
    \/ LoadHit
    \/ LoadMiss
    \/ Sidebar
    \/ Filter
    \/ Metrics
    \/ Charts

Spec == Init /\ [][Next]_vars
\* ------------------------------------------------------------------ C1

Cached == cache # <<>>

\* pc values at which df holds what load_data returned in this run.
Loaded == pc \in {"sidebar", "filter", "metrics", "charts", "done"}

\* C1, as stated: over any sequence of cycles the body of load_data runs at
\* most once.
C1_BodyAtMostOnce == body_runs <= 1

\* C1, amended: once a call of load_data has returned a table, the entry is
\* never replaced, the body never runs again (the file is not read again,
\* no record is generated again) and every later call returns that table; a
\* call whose body raises stores nothing.
C1_MemoizedOnceLoaded ==
    /\ [][Cached => (cache' = cache /\ body_runs' = body_runs /\ file' = file)]_vars
    /\ [](Loaded => (Cached /\ df = cache[1].value))
    /\ []((pc = "error" /\ exc \in {"PermissionError", "ParserError"}) => ~Cached)

\* A second run that was answered from the cache.
C1_Witness == runs >= 2 /\ body_runs = 1 /\ pc = "done" /\ Cached

\* ------------------------------------------------------------------ C2

\* C2: after the filter step, filtered_df holds exactly the rows of df with
\* Crop_Year = selected_year, State_Name in selected_state and Crop in
\* selected_crops (each as often as df holds it), for any selection; an
\* empty selected_state or selected_crops gives no rows and no error.
C2_FilterExact ==
    pc \in {"metrics", "charts", "done"} =>
        LET iy == ColIndex(df, Crop_Year)
            is == ColIndex(df, State_Name)
            ic == ColIndex(df, Crop)
            idx == {i \in 1..Len(df.rows) :
                        /\ df.rows[i][iy] = selected_year
                        /\ df.rows[i][is] \in selected_state
                        /\ df.rows[i][ic] \in selected_crops}
            out == filtered_df.rows
        IN /\ filtered_df.columns = df.columns
           /\ Len(out) = Cardinality(idx)
           /\ \A v \in {df.rows[i] : i \in idx} \cup Range(out) :
                Cardinality({k \in 1..Len(out) : out[k] = v})
                    = Cardinality({i \in idx : df.rows[i] = v})
           /\ ((selected_state = {} \/ selected_crops = {}) => out = <<>>)
           /\ exc = "none"

\* A filter that kept some rows and dropped others.
C2_Witness ==
    /\ pc = "done"
    /\ filtered_df.rows # <<>>
    /\ Len(filtered_df.rows) < Len(df.rows)

\* ------------------------------------------------------------------ C3

\* C3: after the metrics step, avg_yield is total_production / total_area
\* when total_area > 0 and 0 otherwise; no division by zero is made.
C3_AvgYieldGuarded ==
    pc \in {"charts", "done"} =>
        /\ avg_yield.den # 0
        /\ (total_area = 0 => avg_yield = [num |-> <<0, 0>>, den |-> 1])
        /\ (total_area > 0 => avg_yield = [num |-> total_production, den |-> total_area])
        /\ (total_area <= 0 => avg_yield = [num |-> <<0, 0>>, den |-> 1])

\* Rows were selected and their area sums to zero.
C3_Witness == pc = "done" /\ filtered_df.rows # <<>> /\ total_area = 0

\* ------------------------------------------------------------------ C4

\* The whole tonnes and the hundredths of column c, added from the last row
\* to the first.
RECURSIVE C4_WholeBack(_, _, _)
C4_WholeBack(rows, c, i) ==
    IF i > Len(rows) THEN 0 ELSE C4_WholeBack(rows, c, i + 1) + (rows[i][c] \div 100)

RECURSIVE C4_CentsBack(_, _, _)
C4_CentsBack(rows, c, i) ==
    IF i > Len(rows) THEN 0 ELSE C4_CentsBack(rows, c, i + 1) + (rows[i][c] % 100)

RECURSIVE C4_AreaBack(_, _, _)
C4_AreaBack(rows, c, i) ==
    IF i > Len(rows) THEN 0 ELSE C4_AreaBack(rows, c, i + 1) + rows[i][c]

RECURSIVE C5_WholeOver(_, _, _)
C5_WholeOver(rows, c, S) ==
    IF S = {} THEN 0
    ELSE LET i == CHOOSE j \in S : TRUE
         IN (rows[i][c] \div 100) + C5_WholeOver(rows, c, S \ {i})

RECURSIVE C5_CentsOver(_, _, _)
C5_CentsOver(rows, c, S) ==
    IF S = {} THEN 0
    ELSE LET i == CHOOSE j \in S : TRUE
         IN (rows[i][c] % 100) + C5_CentsOver(rows, c, S \ {i})

C5_SumOver(rows, c, S) ==
    LET whole == C5_WholeOver(rows, c, S)
        cents == C5_CentsOver(rows, c, S)
    IN <<whole + (cents \div 100), cents % 100>>

\* C5: the trend series is a function of the dataset, selected_state and
\* selected_crops alone: it has one point per (Crop_Year, State_Name) that
\* has a row of the full dataset with State_Name in selected_state and Crop
\* in selected_crops, whatever its year, and the point is the sum of
\* Production over those rows.  selected_year does not occur in it, so two
\* cycles that differ only in selected_year get the same series.  The bar,
\* pie, scatter and table are given the year-filtered subset.
C5_TrendIgnoresYear ==
    pc = "done" =>
        LET rows == df.rows
            iy == ColIndex(df, Crop_Year)
            is == ColIndex(df, State_Name)
            ic == ColIndex(df, Crop)
            ip == ColIndex(df, Production)
            H == {i \in 1..Len(rows) :
                      rows[i][is] \in selected_state /\ rows[i][ic] \in selected_crops}
            keys == {<<rows[i][iy], rows[i][is]>> : i \in H}
            out == yearly_prod.rows
            bar == figs.fig_crop.rows
            F == filtered_df.rows
        IN /\ {<<out[k][1], out[k][2]>> : k \in 1..Len(out)} = keys
           /\ Len(out) = Cardinality(keys)
           /\ {out[k][1] : k \in 1..Len(out)} = {rows[i][iy] : i \in H}
           /\ \A k \in 1..Len(out) :
                out[k][3] = C5_SumOver(rows, ip,
                                {i \in H : rows[i][iy] = out[k][1] /\ rows[i][is] = out[k][2]})
           /\ figs.fig_trend = yearly_prod
           /\ \A k \in 1..Len(F) : F[k][iy] = selected_year
           /\ figs.fig_state = filtered_df
           /\ figs.fig_scatter = filtered_df
           /\ figs.dataframe = filtered_df
           /\ {bar[k][1] : k \in 1..Len(bar)} = {F[k][ic] : k \in 1..Len(F)}
           /\ Len(bar) = Cardinality({F[k][ic] : k \in 1..Len(F)})
           /\ \A k \in 1..Len(bar) :
                bar[k][2] = C5_SumOver(F, ip, {j \in 1..Len(F) : F[j][ic] = bar[k][1]})

\* A trend series with a point of a year other than the selected one.
C5_Witness ==
    /\ pc = "done"
    /\ \E k \in 1..Len(yearly_prod.rows) : yearly_prod.rows[k][1] # selected_year
    /\ filtered_df.rows # <<>>

\* ------------------------------------------------------------------ C6

\* C6: when read_csv met no file, load_data raised nothing, showed the
\* warning and returned exactly 1000 records with years in 2015..2023 (in
\* the run that made them and in every later one); the cycle goes on with
\* that table and no step of it fails.
C6_AbsentFallsBack ==
    file.status = "absent" =>
        /\ Cached
        /\ cache[1].msgs = <<"CSV file not found. Using synthetic data.">>
        /\ Len(cache[1].value.rows) = 1000
        /\ pc # "error"
        /\ exc = "none"
        /\ (Loaded => /\ Len(df.rows) = 1000
                      /\ messages = <<"CSV file not found. Using synthetic data.">>)
        /\ (pc = "sidebar" =>
              LET iy == ColIndex(df, Crop_Year)
              IN \A i \in 1..Len(df.rows) : df.rows[i][iy] \in 2015..2023)

\* A cycle on synthetic data that ran to its end.
C6_Witness == file.status = "absent" /\ pc = "done" /\ Len(df.rows) = 1000

\* ------------------------------------------------------------------ C7

\* The yield factors, in tenths.
C7_Factor(c) ==
    CASE c = "Rice" -> 30 [] c = "Wheat" -> 35 [] c = "Maize" -> 40
      [] c = "Sugarcane" -> 600 [] c = "Cotton" -> 5 [] c = "Groundnut" -> 15

\* C7: every record of a table the synthetic generator returned has an
\* integer Area in [100, 10000), a Crop_Year in 2015..2023, a State_Name
\* among the 6 states, a Crop among the 6 crops, a Season among the 3
\* seasons, and a Production > 0 that lies between 0.8 and 1.2 times Area x
\* the crop's yield factor.
C7_SyntheticRecordsInRange ==
    (file.status = "absent" /\ pc = "sidebar") =>
        \A i \in 1..Len(df.rows) :
            LET r == df.rows[i] IN
            /\ Len(r) = 6
            /\ r[1] \in {"Karnataka", "Maharashtra", "Punjab", "Uttar Pradesh", "Tamil Nadu", "Bihar"}
            /\ r[2] \in 2015..2023
            /\ r[3] \in {"Kharif", "Rabi", "Whole Year"}
            /\ r[4] \in {"Rice", "Maize", "Wheat", "Sugarcane", "Cotton", "Groundnut"}
            /\ r[5] \in 100..9999
            /\ r[6] > 0
            \* in hundredths: Area x (factor / 10) x 0.8 x 100 = Area x factor x 8
            /\ r[6] >= r[5] * C7_Factor(r[4]) * 8
            /\ r[6] <= r[5] * C7_Factor(r[4]) * 12

\* A generated table that uses every state, crop, season and year.
C7_Witness ==
    /\ file.status = "absent"
    /\ pc = "sidebar"
    /\ {r[1] : r \in Range(df.rows)} = Range(states)
    /\ {r[4] : r \in Range(df.rows)} = Range(crops)
    /\ {r[3] : r \in Range(df.rows)} = Range(seasons)
    /\ {r[2] : r \in Range(df.rows)} = 2015..2023

\* ------------------------------------------------------------------ C8

\* c is h with its leading and trailing whitespace dropped and every space
\* left replaced by an underscore.
C8_IsNormalizedOf(h, c) ==
    LET inked == {i \in 1..Len(h) : h[i] \notin {" ", "\t", "\n", "\r"}}
    IN IF inked = {} THEN c = <<>>
       ELSE LET a == CHOOSE i \in inked : \A j \in inked : i <= j
                b == CHOOSE i \in inked : \A j \in inked : i >= j
            IN /\ Len(c) = b - a + 1
               /\ \A i \in 1..Len(c) : c[i] = IF h[a + i - 1] = " " THEN "_" ELSE h[a + i - 1]

C8_Names == {State_Name, Crop_Year, Season, Crop, Area, Production}

C9_OtherFailuresPropagate ==
    /\ file.status \in {"denied", "malformed"} =>
         /\ ~Cached
         /\ pc \in {"error", "load"}
         /\ (pc = "error" =>
               exc = (IF file.status = "denied" THEN "PermissionError" ELSE "ParserError"))
         /\ df = NoTable
         /\ messages = <<>>
         /\ session = <<<<>>, <<>>, <<>>>>
         /\ all_years = <<>> /\ all_states = <<>> /\ all_crops = <<>>
         /\ filtered_df = NoTable
         /\ total_production = <<0, 0>> /\ total_area = 0
         /\ yearly_prod = NoTable
         /\ figs = NoFigs
    /\ (Cached /\ Len(cache[1].value.rows) = 1000) => file.status = "absent"
    /\ (Cached /\ cache[1].msgs # <<>>) => file.status = "absent"

\* A run ended by the parser's error.
C9_Witness == pc = "error" /\ exc = "ParserError" /\ file.status = "malformed"

\* ----------------------------------------------------------------- C10

\* C10: the dataset is never changed once loaded, no filter, metric or chart
\* step changes the run's df, and what a finished cycle shows is a function
\* of the dataset and of the session's current selections alone.
C10_DatasetFrozenOutputsCurrent ==
    /\ [][Cached => cache' = cache]_vars
    /\ [][(Loaded /\ pc' # "load") => df' = df]_vars
    /\ [](Loaded => df = cache[1].value)
    /\ [](pc = "done" =>
            LET d == cache[1].value
                f == FilterRows(d, w_year[1], w_states[1], w_crops[1])
                tp == SumProduction(f.rows, ColIndex(f, Production))
                ta == SumArea(f.rows, ColIndex(f, Area))
                trend == GroupYearState(HistoryRows(d, w_states[1], w_crops[1]))
            IN /\ filtered_df = f
               /\ total_production = tp
               /\ total_area = ta
               /\ avg_yield = AvgYield(tp, ta)
               /\ yearly_prod = trend
               /\ figs = [fig_crop |-> GroupCrop(f), fig_state |-> f, fig_trend |-> trend,
                          fig_scatter |-> f, dataframe |-> f])

\* A later cycle whose selection the user changed.
C10_Witness ==
    /\ runs >= 2
    /\ pc = "done"
    /\ selected_state = {}
    /\ Len(df.rows) > 0

====
